---- MODULE Spec2Model ----
(***************************************************************************)
(* Model of src/inference/runner.py: the MoERunner factory and its two     *)
(* runner variants (OpenMoERunner, MixtralRunner), the activated_experts   *)
(* record they return, and the softmax + top-k derivation MixtralRunner    *)
(* applies to the router logits.                                           *)
(*                                                                         *)
(* Expert indices and layer indices are 0-based as in the source.  A       *)
(* dict is a function whose DOMAIN is its key set; the key                 *)
(* "layer_{i}.router" is represented by the layer index i.  A tensor of    *)
(* selected experts is a sequence (one element per token) of sequences of  *)
(* expert indices.                                                         *)
(***************************************************************************)
EXTENDS Integers, Sequences, FiniteSets

VARIABLES
    cuda,          \* torch.cuda.is_available() of this process
    tieOrder,      \* how this build's torch.topk orders equal values
    variant,       \* runner id -> "none" | "openmoe" | "mixtral"
    classRecord,   \* MoERunner.activated_experts (class attribute)
    instRecord,    \* runner id -> the instance attribute activated_experts
    loads,         \* from_pretrained calls made so far, per kind
    ops,           \* number of constructions and __call__ invocations so far
    made,          \* runner id -> number of __call__ invocations
    done,          \* runner id -> number of them that returned
    returned,      \* runner id -> the record value its last __call__ returned
    keys0,         \* runner id -> key set of its record when __init__ returned
    last,          \* what the last operation was and what it did
    tk             \* the top-k derivation applied to one score row, twice

vars == <<cuda, tieOrder, variant, classRecord, instRecord, loads, ops,
          made, done, returned, keys0, last, tk>>

----------------------------------------------------------------------------
(* Bounds of the model *)

MaxOps == 4
NumLayers == 2
NumExperts == 3
NumExpertsPerTok == 2
MaxLogit == 3
ExpBits == 1

Runners == 1..MaxOps
Layers == 0..(NumLayers - 1)
Experts == 0..(NumExperts - 1)

\* (batch, sequence) shapes of the input_ids and of the attention_mask
\* handed to __call__
IdsShapes == {<<1, 2>>}
MaskShapes == {<<1, 2>>, <<1, 3>>}

\* names handed to from_name
Names == {"openmoe", "mixtral", "switch"}

TieOrders == {"lowest", "highest"}

----------------------------------------------------------------------------
(* Dictionaries *)

EmptyDict == [k \in {} |-> <<>>]

\* d[key].append(entry) on a defaultdict(list)
DefaultDictAppend(d, key, entry) ==
    IF key \in DOMAIN d
    THEN [d EXCEPT ![key] = Append(@, entry)]
    ELSE [k \in (DOMAIN d) \cup {key} |-> IF k = key THEN <<entry>> ELSE d[k]]

\* len(d[key]) without creating the key
LenAt(d, key) == IF key \in DOMAIN d THEN Len(d[key]) ELSE 0

NumTokens(shape) == shape[1] * shape[2]

----------------------------------------------------------------------------
(* softmax and top-k, lines 132-135 *)

RECURSIVE Pow2(_)
Pow2(n) == IF n = 0 THEN 1 ELSE 2 * Pow2(n - 1)

RECURSIVE SumOver(_, _)
SumOver(f, S) ==
    IF S = {} THEN 0
    ELSE LET e == CHOOSE x \in S : TRUE IN f[e] + SumOver(f, S \ {e})

MaxOf(f) == CHOOSE m \in {f[e] : e \in DOMAIN f} : \A e \in DOMAIN f : f[e] <= m

\* exp(x - m) for x <= m in finite precision: a fixed-point number with
\* ExpBits fractional bits and base 2, which underflows to 0 once m - x
\* exceeds ExpBits (float32 does so once m - x exceeds about 103)
ExpOf(x, m) == IF m - x > ExpBits THEN 0 ELSE Pow2(ExpBits - (m - x))

\* the value of weight 1.0: wide enough that the division by the sum of
\* the exponentials keeps different exponentials different
WeightOne == NumExperts * Pow2(ExpBits)

\* F.softmax(row, dtype=torch.float) over the expert dimension
Softmax(row) ==
    LET m == MaxOf(row)
        ex == [e \in DOMAIN row |-> ExpOf(row[e], m)]
        total == SumOver(ex, DOMAIN row)
    IN [e \in DOMAIN row |-> (ex[e] * WeightOne) \div total]

\* whether torch.topk lists expert e before expert f; `order` is the order
\* this build's kernel gives to equal values, which torch.topk leaves open
Before(w, e, f, order) ==
    \/ w[e] > w[f]
    \/ /\ w[e] = w[f]
       /\ IF order = "lowest" THEN e <= f ELSE e >= f

RECURSIVE TopKFrom(_, _, _, _)
TopKFrom(w, k, S, order) ==
    IF k = 0 THEN <<>>
    ELSE LET b == CHOOSE e \in S : \A f \in S : Before(w, e, f, order)
         IN <<b>> \o TopKFrom(w, k - 1, S \ {b}, order)

\* TopK with the experts numbered from 1 (what C8 must detect)
TopKOneBased(w, k, order) ==
    [j \in 1..k |-> TopKFrom(w, k, DOMAIN w, order)[j] + 1]

\* TopK with largest=False: the k lowest weights (what C9 must detect)
TopKSmallest(w, k, order) ==
    TopKFrom([e \in DOMAIN w |-> 0 - w[e]], k, DOMAIN w, order)

\* the indices torch.topk(w, k, dim=-1) returns (sorted=True), for k <= len(w)
TopK(w, k, order) == TopKFrom(w, k, DOMAIN w, order)

\* every row of router logits of the model
ScoreRows == [Experts -> 0..MaxLogit]

\* lines 132-135 for one token's row of router logits: softmax, then the
\* indices of the top num_experts_per_tok weights
Select(row, order) == TopK(Softmax(row), NumExpertsPerTok, order)

\* Select tabulated (comparing the table with itself makes TLC compute it
\* once instead of at every use)
SelectTable ==
    LET t == [order \in TieOrders |-> [row \in ScoreRows |-> Select(row, order)]]
    IN IF t = t THEN t ELSE t

\* lines 132-135 under this build's torch.topk
SelectRow(row) == SelectTable[tieOrder][row]

\* lines 132-135 for one layer: a row of selected experts per token
SelectedExperts(layer_router) ==
    [t \in 1..Len(layer_router) |-> SelectRow(layer_router[t])]

----------------------------------------------------------------------------
(* The model's router output *)

\* a row of router logits with one expert at MaxLogit and the others at 0
HotRow(h) == [e \in Experts |-> IF e = h THEN MaxLogit ELSE 0]

\* outputs.router_logits of a forward pass: one tensor per layer, one row
\* per token; the favoured expert moves with the layer and the token
RouterLogits(hot, shape) ==
    [i \in 1..NumLayers |->
        [t \in 1..NumTokens(shape) |->
            HotRow((hot + (i - 1) + (t - 1)) % NumExperts)]]

----------------------------------------------------------------------------
(* Records *)

\* the key f"layer_{i}.router"
LayerKey(i) == i

\* lines 131-138: the loop over enumerate(outputs.router_logits)
RECURSIVE AppendFrom(_, _, _)
AppendFrom(d, router_logits, i) ==
    IF i = Len(router_logits) THEN d
    ELSE AppendFrom(
            DefaultDictAppend(d, LayerKey(i),
                              SelectedExperts(router_logits[i + 1])),
            router_logits, i + 1)

\* AppendLayers losing the first layer of router_logits (what C1 must detect)
AppendLayersFromSecond(d, router_logits) == AppendFrom(d, router_logits, 1)

RECURSIVE AppendShifted(_, _, _, _)
AppendShifted(d, router_logits, i, start) ==
    IF i = Len(router_logits) THEN d
    ELSE AppendShifted(
            DefaultDictAppend(d, LayerKey(start + i),
                              SelectedExperts(router_logits[i + 1])),
            router_logits, i + 1, start)

\* AppendLayers numbering the layers from the number of keys the record
\* already holds, enumerate(..., start=len(record)) (what C3 must detect)
AppendLayersAfterKeys(d, router_logits) ==
    AppendShifted(d, router_logits, 0, Cardinality(DOMAIN d))

AppendLayers(d, router_logits) == AppendFrom(d, router_logits, 0)

\* MixtralRecordAfter appending whether or not the forward pass returned
\* (what C10 must detect)
MixtralRecordAlways(d, fwd, router_logits) ==
    IF NumExpertsPerTok <= NumExperts
    THEN AppendLayers(d, router_logits)
    ELSE d

\* lines 125-138 of MixtralRunner.__call__: the record after the call
MixtralRecordAfter(d, fwd, router_logits) ==
    IF fwd = "ok" /\ NumExpertsPerTok <= NumExperts
    THEN AppendLayers(d, router_logits)
    ELSE d

\* the router hooks of set_router_hook: each router module that ran during
\* the pass appended its decision under its own key
RECURSIVE HookAppends(_, _, _)
HookAppends(d, router_logits, ran) ==
    IF ran = 0 THEN d
    ELSE DefaultDictAppend(HookAppends(d, router_logits, ran - 1), ran - 1,
                           SelectedExperts(router_logits[ran]))

\* set_router_hook(model)[0]: the accumulator the hooks append to, with one
\* key per router module found in the model
SetRouterHook == [i \in Layers |-> <<>>]

\* self.activated_experts: the instance attribute when __init__ set one,
\* the class attribute otherwise
RecordOf(r) == IF variant[r] = "openmoe" THEN instRecord[r] ELSE classRecord

----------------------------------------------------------------------------
(* State *)

NoLoads == [tokenizer |-> 0, config |-> 0, model |-> 0]

\* `last` before any operation; every operation overwrites the fields it
\* is about and leaves the others at these values
NoLast ==
    [op |-> "none", runner |-> 0, name |-> "", result |-> "",
     idsShape |-> <<>>, maskShape |-> <<>>,
     transfers |-> 0, forwards |-> 0, grad |-> FALSE,
     preVariant |-> [r \in Runners |-> "none"],
     preClass |-> EmptyDict, preInst |-> [r \in Runners |-> EmptyDict],
     preLoads |-> NoLoads, preDone |-> [r \in Runners |-> 0],
     prevReturned |-> EmptyDict]

\* the pre-state every operation records
Snapshot ==
    [NoLast EXCEPT !.preVariant = variant, !.preClass = classRecord,
                   !.preInst = instRecord, !.preLoads = loads,
                   !.preDone = done]

TkIdle == [phase |-> 0, scores |-> <<>>, first |-> <<>>, second |-> <<>>]

\* the process after `import inference.runner`: line 28 has created the one
\* class-level defaultdict, and no runner exists
Init ==
    /\ cuda \in BOOLEAN
    /\ tieOrder \in TieOrders
    /\ variant = [r \in Runners |-> "none"]
    /\ classRecord = EmptyDict
    /\ instRecord = [r \in Runners |-> EmptyDict]
    /\ loads = NoLoads
    /\ ops = 0
    /\ made = [r \in Runners |-> 0]
    /\ done = [r \in Runners |-> 0]
    /\ returned = [r \in Runners |-> EmptyDict]
    /\ keys0 = [r \in Runners |-> {}]
    /\ last = NoLast
    /\ tk = TkIdle

Built == {r \in Runners : variant[r] # "none"}

----------------------------------------------------------------------------
(* MoERunner.from_name and the two constructors *)

\* FromName with the last branch taken for every other name (what C5 must
\* detect)
FromNameElseMixtral(name) ==
    IF name = "openmoe" THEN "OpenMoERunner" ELSE "MixtralRunner"

\* lines 45-49: the class from_name constructs, or the error it raises
FromName(name) ==
    IF name = "openmoe" THEN "OpenMoERunner"
    ELSE IF name = "mixtral" THEN "MixtralRunner"
    ELSE "NotImplementedError"

\* lines 57-75: OpenMoERunner.__init__ for the new runner r
OpenMoEInit(r) ==
    /\ loads' = [loads EXCEPT !.tokenizer = @ + 1, !.config = @ + 1,
                              !.model = @ + 1]
    /\ variant' = [variant EXCEPT ![r] = "openmoe"]
    /\ instRecord' = [instRecord EXCEPT ![r] = SetRouterHook]
    /\ keys0' = [keys0 EXCEPT ![r] = DOMAIN SetRouterHook]
    /\ UNCHANGED classRecord

\* lines 98-113: MixtralRunner.__init__ for the new runner r; it assigns
\* model_name, tokenizer and model, and no activated_experts
MixtralInit(r) ==
    /\ loads' = [loads EXCEPT !.tokenizer = @ + 1, !.model = @ + 1]
    /\ variant' = [variant EXCEPT ![r] = "mixtral"]
    /\ keys0' = [keys0 EXCEPT ![r] = DOMAIN classRecord]
    /\ UNCHANGED <<classRecord, instRecord>>

\* MoERunner.from_name(name, seq_len)
Build(name) ==
    LET cls == FromName(name)
        r == Cardinality(Built) + 1
    IN /\ cls # "NotImplementedError" => ops < MaxOps
       /\ ops' = IF cls = "NotImplementedError" THEN ops ELSE ops + 1
       /\ IF cls = "OpenMoERunner" THEN OpenMoEInit(r)
          ELSE IF cls = "MixtralRunner" THEN MixtralInit(r)
          ELSE UNCHANGED <<loads, variant, classRecord, instRecord, keys0>>
       /\ last' = [Snapshot EXCEPT
                     !.op = "build", !.name = name,
                     !.runner = IF cls = "NotImplementedError" THEN 0 ELSE r,
                     !.result = IF cls = "NotImplementedError" THEN cls
                                ELSE "ok"]
       /\ UNCHANGED <<cuda, tieOrder, made, done, returned, tk>>

----------------------------------------------------------------------------
(* __call__ *)

\* lines 84-86 and 122-124: the tensors moved to the device
Transfers == IF cuda THEN 2 ELSE 0

\* line 115: the decorator of MixtralRunner.__call__ is commented out, so
\* its forward pass runs in the caller's gradient mode
MixtralGrad(ambient) == ambient

\* line 77: @torch.no_grad() on OpenMoERunner.__call__
OpenMoEGrad(ambient) == FALSE

\* what __call__ raises or returns, given the forward pass's outcome
MixtralResult(fwd) ==
    IF fwd # "ok" THEN "ForwardError"
    ELSE IF NumExpertsPerTok > NumExperts THEN "TopKError"
    ELSE "ok"

\* lines 116-139: MixtralRunner.__call__ on runner r
MixtralCall(r, ids, mask, ambient, fwd, hot) ==
    LET res == MixtralResult(fwd)
        after == MixtralRecordAfter(RecordOf(r), fwd, RouterLogits(hot, ids))
    IN /\ variant[r] = "mixtral"
       /\ ops < MaxOps
       /\ fwd # "ok" => hot = 0
       /\ ops' = ops + 1
       /\ made' = [made EXCEPT ![r] = @ + 1]
       /\ classRecord' = after
       /\ done' = [done EXCEPT ![r] = IF res = "ok" THEN @ + 1 ELSE @]
       /\ returned' = [returned EXCEPT ![r] = IF res = "ok" THEN after ELSE @]
       /\ last' = [Snapshot EXCEPT
                     !.op = "infer", !.runner = r, !.name = "mixtral",
                     !.result = res, !.idsShape = ids, !.maskShape = mask,
                     !.transfers = Transfers, !.forwards = 1,
                     !.grad = MixtralGrad(ambient),
                     !.prevReturned = returned[r]]
       /\ UNCHANGED <<cuda, tieOrder, variant, instRecord, loads, keys0, tk>>

\* lines 77-90: OpenMoERunner.__call__ on runner r; `ran` router modules
\* ran before the forward pass returned or raised
OpenMoECall(r, ids, mask, ambient, fwd, hot, ran) ==
    LET res == IF fwd = "ok" THEN "ok" ELSE "ForwardError"
        after == HookAppends(RecordOf(r), RouterLogits(hot, ids), ran)
    IN /\ variant[r] = "openmoe"
       /\ ops < MaxOps
       /\ fwd = "ok" => ran = NumLayers
       /\ fwd # "ok" => hot = 0
       /\ ops' = ops + 1
       /\ made' = [made EXCEPT ![r] = @ + 1]
       /\ instRecord' = [instRecord EXCEPT ![r] = after]
       /\ done' = [done EXCEPT ![r] = IF res = "ok" THEN @ + 1 ELSE @]
       /\ returned' = [returned EXCEPT ![r] = IF res = "ok" THEN after ELSE @]
       /\ last' = [Snapshot EXCEPT
                     !.op = "infer", !.runner = r, !.name = "openmoe",
                     !.result = res, !.idsShape = ids, !.maskShape = mask,
                     !.transfers = Transfers, !.forwards = 1,
                     !.grad = OpenMoEGrad(ambient),
                     !.prevReturned = returned[r]]
       /\ UNCHANGED <<cuda, tieOrder, variant, classRecord, loads, keys0, tk>>

BuildStep == \E name \in Names : Build(name)

\* the inputs of one __call__: the runner, the two tensors' shapes, the
\* caller's gradient mode, and what the model does with them
MixtralStep ==
    \E r \in {q \in Runners : variant[q] = "mixtral" /\ ops < MaxOps} :
       \E ids \in IdsShapes, mask \in MaskShapes, ambient \in BOOLEAN,
          fwd \in {"ok", "raise"} :
          \E hot \in IF fwd = "ok" THEN Experts ELSE {0} :
             MixtralCall(r, ids, mask, ambient, fwd, hot)

OpenMoEStep ==
    \E r \in {q \in Runners : variant[q] = "openmoe" /\ ops < MaxOps} :
       \E ids \in IdsShapes, mask \in MaskShapes, ambient \in BOOLEAN,
          fwd \in {"ok", "raise"} :
          \E hot \in IF fwd = "ok" THEN Experts ELSE {0},
             ran \in IF fwd = "ok" THEN {NumLayers} ELSE 0..NumLayers :
             OpenMoECall(r, ids, mask, ambient, fwd, hot, ran)

Next == BuildStep \/ MixtralStep \/ OpenMoEStep

Spec == Init /\ [][Next]_vars

----------------------------------------------------------------------------
(* The derivation of lines 132-135 on its own: one row of router scores,   *)
(* derived twice                                                           *)

InitTopK ==
    /\ cuda = FALSE
    /\ tieOrder \in TieOrders
    /\ variant = [r \in Runners |-> "none"]
    /\ classRecord = EmptyDict
    /\ instRecord = [r \in Runners |-> EmptyDict]
    /\ loads = NoLoads
    /\ ops = 0
    /\ made = [r \in Runners |-> 0]
    /\ done = [r \in Runners |-> 0]
    /\ returned = [r \in Runners |-> EmptyDict]
    /\ keys0 = [r \in Runners |-> {}]
    /\ last = NoLast
    /\ tk \in {[TkIdle EXCEPT !.scores = row] : row \in ScoreRows}

DeriveFirst ==
    /\ tk.phase = 0
    /\ NumExpertsPerTok <= NumExperts
    /\ tk' = [tk EXCEPT !.phase = 1, !.first = SelectRow(tk.scores)]
    /\ UNCHANGED <<cuda, tieOrder, variant, classRecord, instRecord, loads,
                   ops, made, done, returned, keys0, last>>

DeriveSecond ==
    /\ tk.phase = 1
    /\ tk' = [tk EXCEPT !.phase = 2, !.second = SelectRow(tk.scores)]
    /\ UNCHANGED <<cuda, tieOrder, variant, classRecord, instRecord, loads,
                   ops, made, done, returned, keys0, last>>

NextTopK == DeriveFirst \/ DeriveSecond

SpecTopK == InitTopK /\ [][NextTopK]_vars

----------------------------------------------------------------------------
(* Claims about the top-k derivation (checked under SpecTopK) *)

\* sel lists the k experts with the highest value of f in descending order,
\* an expert of lower index first among equal values
IsTopKLowestFirst(f, sel, k) ==
    /\ Len(sel) = k
    /\ \A j \in 1..k :
          LET rest == Experts \ {sel[i] : i \in 1..(j - 1)}
          IN /\ sel[j] \in rest
             /\ \A e \in rest :
                   \/ f[sel[j]] > f[e]
                   \/ f[sel[j]] = f[e] /\ sel[j] <= e

IsTopKByWeight(w, sel, k) ==
    /\ Len(sel) = k
    /\ \A j \in 1..k : sel[j] \in Experts
    /\ \A i, j \in 1..k : i # j => sel[i] # sel[j]
    /\ \A i, j \in 1..k : i < j => w[sel[i]] >= w[sel[j]]
    /\ \A e \in Experts \ {sel[j] : j \in 1..k} :
          \A j \in 1..k : w[e] <= w[sel[j]]

----------------------------------------------------------------------------
(* Claims about the runners (checked under Spec) *)

\* the record runner r had before the last operation
PreRecordOf(r) ==
    IF last.preVariant[r] = "openmoe" THEN last.preInst[r] ELSE last.preClass

PreBuilt == {r \in Runners : last.preVariant[r] # "none"}

AllEmpty(d) == \A key \in DOMAIN d : d[key] = <<>>

\* C1: a completed __call__ with input_ids and attention_mask of the same
\* shape lengthens every per-layer sequence of the runner's record by
\* exactly one, for both variants.
C1_OneEntryPerLayer ==
    (last.op = "infer" /\ last.result = "ok" /\ last.idsShape = last.maskShape)
    => \A i \in Layers \cup DOMAIN RecordOf(last.runner) :
          LenAt(RecordOf(last.runner), i)
             = LenAt(PreRecordOf(last.runner), i) + 1

\* C1 witness: a MixtralRunner's second completed call with matching shapes
C1_Witness ==
    /\ last.op = "infer" /\ last.result = "ok" /\ last.name = "mixtral"
    /\ last.idsShape = last.maskShape
    /\ last.preDone[last.runner] = 1
    /\ DOMAIN PreRecordOf(last.runner) = Layers

\* C2 as stated: the record of a newly built runner is empty or holds only
\* empty sequences whatever was called on other runners before, and a
\* __call__ on one runner leaves the record of every other runner unchanged.
C2_RecordOwnedExclusively ==
    /\ (last.op = "build" /\ last.result = "ok")
          => AllEmpty(RecordOf(last.runner))
    /\ last.op = "infer"
          => \A q \in Built \ {last.runner} : RecordOf(q) = PreRecordOf(q)

\* C3 as stated: after every __call__ the key set of a runner's record is
\* the key set it had right after construction.
C3_KeysFixedFromConstruction ==
    \A r \in Built : DOMAIN RecordOf(r) = keys0[r]

\* C3 amended: no operation removes a key from a runner's record, and once
\* a __call__ on the runner has completed, no operation adds one either (a
\* record that is empty after construction gets its keys during the calls
\* up to the first one that completes).
C3_KeysGrowThenFixed ==
    \A r \in PreBuilt :
       /\ DOMAIN PreRecordOf(r) \subseteq DOMAIN RecordOf(r)
       /\ last.preDone[r] >= 1 => DOMAIN RecordOf(r) = DOMAIN PreRecordOf(r)

\* C3 witness: a MixtralRunner completes a second call on a record that
\* held every layer key before it
C3_Witness ==
    /\ last.op = "infer" /\ last.result = "ok" /\ last.name = "mixtral"
    /\ last.preDone[last.runner] >= 1
    /\ DOMAIN PreRecordOf(last.runner) = Layers
    /\ keys0[last.runner] # Layers

\* C4 as stated: the n-th __call__ on a runner returns the runner's record,
\* which then holds, for every key, a sequence of length n whose first n-1
\* entries are the entries the previous call returned, in the same order.
\* (Stated for the runners all of whose calls returned, so that "the n-th
\* call" has one meaning.)
C4_ReturnedRecordCumulative ==
    (last.op = "infer" /\ last.result = "ok"
        /\ made[last.runner] = done[last.runner])
    => LET r == last.runner
           n == done[r]
       IN /\ returned[r] = RecordOf(r)
          /\ \A key \in DOMAIN returned[r] :
                /\ Len(returned[r][key]) = n
                /\ n > 1 =>
                      /\ key \in DOMAIN last.prevReturned
                      /\ SubSeq(returned[r][key], 1, n - 1)
                            = last.prevReturned[key]

\* C5: from_name with a name other than "openmoe" and "mixtral" raises,
\* returns no runner, and loads no tokenizer, configuration or model and
\* touches no record before it does.
C5_UnsupportedNameBuildsNothing ==
    (last.op = "build" /\ last.name \notin {"openmoe", "mixtral"})
    => /\ last.result = "NotImplementedError"
       /\ last.runner = 0
       /\ variant = last.preVariant
       /\ loads = last.preLoads
       /\ classRecord = last.preClass
       /\ instRecord = last.preInst

\* C5 witness: an unsupported name is given after a runner was built and used
C5_Witness ==
    /\ last.op = "build" /\ last.name = "switch"
    /\ Built # {}
    /\ \E r \in Built : done[r] >= 1

\* C6 as stated: a __call__ with input_ids and attention_mask of different
\* shapes fails with a shape-mismatch error before any device transfer and
\* before any forward pass has started, and leaves the record unchanged.
C6_ShapeMismatchFailsEarly ==
    (last.op = "infer" /\ last.idsShape # last.maskShape)
    => /\ last.result = "ShapeMismatch"
       /\ last.transfers = 0
       /\ last.forwards = 0
       /\ RecordOf(last.runner) = PreRecordOf(last.runner)

\* C7 as stated: every __call__, on both variants, runs exactly one forward
\* pass, with gradient tracking disabled during it.
C7_InferenceOnlyForward ==
    last.op = "infer" => (last.forwards = 1 /\ ~last.grad)

\* C8: every entry a MixtralRunner appended holds, for each token, exactly
\* num_experts_per_tok indices, each of them in [0, num_experts).
C8_SelectedIndicesInRange ==
    \A key \in DOMAIN classRecord :
       \A n \in 1..Len(classRecord[key]) :
          LET entry == classRecord[key][n]
          IN \A t \in 1..Len(entry) :
                /\ Len(entry[t]) = NumExpertsPerTok
                /\ \A j \in 1..Len(entry[t]) : entry[t][j] \in Experts

\* C8 witness: the record holds the entries of two MixtralRunner calls for
\* every layer
C8_Witness ==
    /\ DOMAIN classRecord = Layers
    /\ \A key \in Layers :
          /\ Len(classRecord[key]) = 2
          /\ Len(classRecord[key][1]) > 0

\* C10: a MixtralRunner __call__ whose forward pass raises leaves the
\* record as it was: no key added and no entry appended.
C10_FailedForwardLeavesRecord ==
    (last.op = "infer" /\ last.name = "mixtral"
        /\ last.result = "ForwardError")
    => /\ classRecord = last.preClass
       /\ RecordOf(last.runner) = PreRecordOf(last.runner)

\* C10 witness: the forward pass of a MixtralRunner raises when the record
\* already holds entries
C10_Witness ==
    /\ last.op = "infer" /\ last.name = "mixtral"
    /\ last.result = "ForwardError"
    /\ DOMAIN last.preClass = Layers

====
